---- MODULE Spec2Model ----
(***************************************************************************)
(* Word-to-PDF conversion (src/src/app/word-to-pdf/actions.ts).            *)
(*                                                                         *)
(* Three state machines over one set of variables:                           *)
(*   SpecFont  the FontManager alone: construction from the font files on  *)
(*             disk, then getBestFontForText applied to texts;             *)
(*   Spec      one call of convertWordToPdfAction, statement by statement; *)
(*   SpecPage  the upload page (src/unnamed/part_000): file selections and *)
(*             conversions, each conversion running the steps of Spec.     *)
(* Strings are sequences of UTF-16 code units (numbers), as in JavaScript. *)
(***************************************************************************)
EXTENDS Integers, Sequences, FiniteSets, TLC

VARIABLES
    fontFiles,      \* the fonts directory: file name -> "present" | "missing" | "unreadable"
    fontManager,    \* NoFontManager, or [loadedFonts, fontPriority]
    qText,          \* SpecFont: the text of the last getBestFontForText call
    qReturn,        \* SpecFont: [site, value] of the last call, or NoReturn
    pc,             \* control point of the running call
    thisArg,        \* the receiver (this) convertWordToPdfAction was invoked with
    input,          \* ConvertWordToPdfInput.docxFileBase64
    docx,           \* what the bytes of the input encode (read by the extractor only)
    docxFileBuffer, \* number of bytes of the decoded buffer
    textContent,    \* rawTextResult.value
    images,         \* the images array filled by the convertImage callback
    pdfDoc,         \* NoPdfDoc, or [pages, font, ended]
    pdfChunks,      \* chunks received on 'data'
    loopIdx,        \* index of the paragraph / image the running loop is at
    thrown,         \* the message of the exception travelling to the catch clause
    outcome,        \* "pending" | "resolved" | "rejected": the promise handed to the caller
    result,         \* the ConvertWordToPdfOutput the promise resolved with
    log,            \* collaborators invoked so far, in order
    failures,       \* failures of the collaborators so far, in order
    file,           \* page state: the selected File, or Null
    isConverting,   \* page state
    convertedPdfUri, \* page state: the data URI of the PDF, or Null
    error,          \* page state: [text |-> the error message], or Null
    handler,        \* where the running handleConvert is: "none" | "reading" | "awaiting"
    closureFile,    \* the file the running handleConvert was rendered with
    convertedFrom,  \* the file whose conversion gave convertedPdfUri, or Null
    downloaded      \* the last call of downloadDataUri: [uri, name], or Null

vars == <<fontFiles, fontManager, qText, qReturn, pc, thisArg, input, docx,
          docxFileBuffer, textContent, images, pdfDoc, pdfChunks, loopIdx, thrown, outcome, result, log,
          failures, file, isConverting, convertedPdfUri, error, handler, closureFile,
          convertedFrom, downloaded>>

pageVars == <<file, isConverting, convertedPdfUri, error, handler, closureFile,
              convertedFrom, downloaded>>

fontVars == <<fontFiles, fontManager, qText, qReturn>>
callVars == <<pc, thisArg, input, docx, docxFileBuffer, textContent, images, pdfDoc,
              pdfChunks, loopIdx, thrown, outcome, result, log, failures>>

-----------------------------------------------------------------------------
(* Bounds of the model *)

MaxTextLen == 5     \* getBestFontForText: every text of up to this many code units
MaxRunLen == 10     \* ... and every text made of three runs, this long in total
MaxImages == 2      \* embedded images of a document

-----------------------------------------------------------------------------
(* FONT_CONFIG *)

FONT_CONFIG ==
    << [name |-> "NotoSansSC",
        file |-> "NotoSansSC-VariableFont_wght.ttf",
        unicodeRanges |-> << <<19968, 40959>>,     \* 0x4E00-0x9FFF
                             <<13312, 19903>>,     \* 0x3400-0x4DBF
                             <<131072, 173791>>,   \* 0x20000-0x2A6DF
                             <<173824, 177983>>,   \* 0x2A700-0x2B73F
                             <<177984, 178207>>,   \* 0x2B740-0x2B81F
                             <<178208, 183983>>,   \* 0x2B820-0x2CEAF
                             <<183984, 191471>>,   \* 0x2CEB0-0x2EBEF
                             <<12288, 12351>>,     \* 0x3000-0x303F
                             <<65280, 65519>> >>], \* 0xFF00-0xFFEF
       [name |-> "DejaVuSans",
        file |-> "DejaVuSans.ttf",
        unicodeRanges |-> << <<0, 127>>,           \* 0x0000-0x007F
                             <<128, 255>>,         \* 0x0080-0x00FF
                             <<256, 383>>,         \* 0x0100-0x017F
                             <<384, 591>>,         \* 0x0180-0x024F
                             <<880, 1023>>,        \* 0x0370-0x03FF
                             <<1024, 1279>>,       \* 0x0400-0x04FF
                             <<1280, 1327>>,       \* 0x0500-0x052F
                             <<7680, 7935>>,       \* 0x1E00-0x1EFF
                             <<8192, 8303>>,       \* 0x2000-0x206F
                             <<8352, 8399>> >>] >> \* 0x20A0-0x20CF

FontNames == {FONT_CONFIG[i].name : i \in 1..Len(FONT_CONFIG)}
FontFileNames == {FONT_CONFIG[i].file : i \in 1..Len(FONT_CONFIG)}

\* FONT_CONFIG.find(f => f.name === fontName)
FindFontConfig(fontName) ==
    LET hits == {i \in 1..Len(FONT_CONFIG) : FONT_CONFIG[i].name = fontName}
    IN  IF hits = {} THEN [name |-> "undefined"]
        ELSE FONT_CONFIG[CHOOSE i \in hits : \A j \in hits : i <= j]

\* What fs.existsSync / fs.readFileSync can find a font file to be.
FileStates == {"present", "missing", "unreadable"}

\* The Buffer fs.readFileSync returns for a file: one distinct object per file.
ReadFile(fontPath) == [buffer |-> fontPath]

Null == [null |-> TRUE]
NoFontManager == [constructed |-> FALSE]
NoReturn == [returned |-> FALSE]

-----------------------------------------------------------------------------
(* JavaScript strings *)

HighSurrogateMin == 55296   \* 0xD800
LowSurrogateMin == 56320    \* 0xDC00
LowSurrogateMax == 57343    \* 0xDFFF
SupplementaryMin == 65536   \* 0x10000
SurrogateBlock == 1024      \* 0x400

IsHighSurrogate(u) == u >= HighSurrogateMin /\ u < LowSurrogateMin
IsLowSurrogate(u) == u >= LowSurrogateMin /\ u <= LowSurrogateMax

\* Array.from(text).map(char => char.codePointAt(0) || 0): the string iterator
\* joins a high surrogate with the low surrogate that follows it, and yields
\* every other code unit by itself.
RECURSIVE CodePoints(_)
CodePoints(text) ==
    IF text = <<>> THEN <<>>
    ELSE IF Len(text) >= 2 /\ IsHighSurrogate(text[1]) /\ IsLowSurrogate(text[2])
         THEN << (text[1] - HighSurrogateMin) * SurrogateBlock
                   + (text[2] - LowSurrogateMin) + SupplementaryMin >>
              \o CodePoints(SubSeq(text, 3, Len(text)))
         ELSE <<text[1]>> \o CodePoints(Tail(text))

-----------------------------------------------------------------------------
(* FontManager *)

\* The loop of loadAvailableFonts from catalog entry i on. fs.existsSync false:
\* warn and go on; fs.readFileSync throws: caught, go on.
RECURSIVE LoadFrom(_, _, _)
LoadFrom(i, files, fm) ==
    IF i > Len(FONT_CONFIG) THEN fm
    ELSE LET fontConfig == FONT_CONFIG[i]
         IN  IF files[fontConfig.file] = "present"
             THEN LoadFrom(i + 1, files,
                    [loadedFonts |-> [n \in DOMAIN fm.loadedFonts \cup {fontConfig.name} |->
                                        IF n = fontConfig.name THEN ReadFile(fontConfig.file)
                                        ELSE fm.loadedFonts[n]],
                     fontPriority |-> Append(fm.fontPriority, fontConfig.name)])
             ELSE LoadFrom(i + 1, files, fm)

\* loadAvailableFonts with the push to fontPriority outside the existsSync test
RECURSIVE LoadFromPushAlways(_, _, _)
LoadFromPushAlways(i, files, fm) ==
    IF i > Len(FONT_CONFIG) THEN fm
    ELSE LET fontConfig == FONT_CONFIG[i]
             loaded == IF files[fontConfig.file] = "present"
                       THEN [n \in DOMAIN fm.loadedFonts \cup {fontConfig.name} |->
                               IF n = fontConfig.name THEN ReadFile(fontConfig.file)
                               ELSE fm.loadedFonts[n]]
                       ELSE fm.loadedFonts
         IN  LoadFromPushAlways(i + 1, files,
                [loadedFonts |-> loaded,
                 fontPriority |-> Append(fm.fontPriority, fontConfig.name)])

loadAvailableFontsPushAlways(files) ==
    LoadFromPushAlways(1, files, [loadedFonts |-> [n \in {} |-> Null], fontPriority |-> <<>>])

\* new FontManager()
loadAvailableFonts(files) ==
    LoadFrom(1, files, [loadedFonts |-> [n \in {} |-> Null], fontPriority |-> <<>>])

\* isCodePointSupported with the upper bound compared the wrong way round
isCodePointSupportedLowerOnly(codePoint, ranges) ==
    \E i \in 1..Len(ranges) : codePoint >= ranges[i][1] /\ codePoint >= ranges[i][2]

isCodePointSupported(codePoint, ranges) ==
    \E i \in 1..Len(ranges) : codePoint >= ranges[i][1] /\ codePoint <= ranges[i][2]

\* supportedChars after the inner loop of getBestFontForText
SupportedChars(textCodePoints, ranges) ==
    Cardinality({k \in 1..Len(textCodePoints) :
                    isCodePointSupported(textCodePoints[k], ranges)})

\* The threshold 0.8 as a fraction
ThresholdNum == 8
ThresholdDen == 10

\* The threshold test with >= in place of >
ExceedsThresholdOrEqual(supportedChars, length) ==
    length > 0 /\ supportedChars * ThresholdDen >= ThresholdNum * length

\* supportedChars / textCodePoints.length > 0.8 in IEEE doubles: 0/0 is NaN and
\* compares false; otherwise the quotient exceeds the double 0.8 exactly when
\* the fraction exceeds 8/10 (the double nearest to an exact 8/10 is the literal 0.8).
ExceedsThreshold(supportedChars, length) ==
    length > 0 /\ supportedChars * ThresholdDen > ThresholdNum * length

\* The for loop over fontPriority from index i on: the index of the first font
\* whose coverage passes the test, 0 when the loop ends without returning.
RECURSIVE FirstPassing(_, _, _)
FirstPassing(i, fontPriority, textCodePoints) ==
    IF i > Len(fontPriority) THEN 0
    ELSE LET fontConfig == FindFontConfig(fontPriority[i])
         IN  IF fontConfig.name = "undefined"
             THEN FirstPassing(i + 1, fontPriority, textCodePoints)
             ELSE IF ExceedsThreshold(
                        SupportedChars(textCodePoints, fontConfig.unicodeRanges),
                        Len(textCodePoints))
                  THEN i
                  ELSE FirstPassing(i + 1, fontPriority, textCodePoints)

\* this.loadedFonts.get(name) || null
GetOrNull(loadedFonts, name) ==
    IF name \in DOMAIN loadedFonts THEN loadedFonts[name] ELSE Null

\* getBestFontForText without the fallback to the first font
BestFontReturnNoFallback(fm, text) ==
    IF DOMAIN fm.loadedFonts = {}
    THEN [site |-> "default", value |-> Null]
    ELSE LET hit == FirstPassing(1, fm.fontPriority, CodePoints(text))
         IN  IF hit > 0
             THEN [site |-> "threshold",
                   value |-> GetOrNull(fm.loadedFonts, fm.fontPriority[hit])]
             ELSE [site |-> "fallback", value |-> Null]

\* getBestFontForText with the return statement taken: "default" (line 90),
\* "threshold" (line 111) or "fallback" (line 117).
BestFontReturn(fm, text) ==
    IF DOMAIN fm.loadedFonts = {}
    THEN [site |-> "default", value |-> Null]
    ELSE LET hit == FirstPassing(1, fm.fontPriority, CodePoints(text))
         IN  IF hit > 0
             THEN [site |-> "threshold",
                   value |-> GetOrNull(fm.loadedFonts, fm.fontPriority[hit])]
             ELSE [site |-> "fallback",
                   value |-> IF Len(fm.fontPriority) > 0
                             THEN GetOrNull(fm.loadedFonts, fm.fontPriority[1])
                             ELSE Null]

getBestFontForText(fm, text) == BestFontReturn(fm, text).value

\* The quotients supportedChars / textCodePoints.length that a call of
\* getBestFontForText evaluates (line 110): none when no font is loaded, else
\* one for each font of the priority list up to the font the loop returns at.
ThresholdTests(fm, text) ==
    IF DOMAIN fm.loadedFonts = {} THEN {}
    ELSE LET textCodePoints == CodePoints(text)
             hit == FirstPassing(1, fm.fontPriority, textCodePoints)
             last == IF hit > 0 THEN hit ELSE Len(fm.fontPriority)
         IN  {[fontName |-> fm.fontPriority[i],
               supportedChars |->
                   SupportedChars(textCodePoints,
                                  FindFontConfig(fm.fontPriority[i]).unicodeRanges),
               length |-> Len(textCodePoints)] :
                  i \in {j \in 1..last :
                            FindFontConfig(fm.fontPriority[j]).name # "undefined"}}

\* getAvailableFonts: the keys of the Map, in insertion order
getAvailableFonts(fm) == fm.fontPriority

-----------------------------------------------------------------------------
(* String literals and the String.prototype methods the action uses *)

\* The printable ASCII characters in code order from 32 on; the places of the
\* double quote (34), the backslash (92) and the grave accent (96), which no
\* literal here uses, hold spaces.
Ascii == " ! #$%&'()*+,-./0123456789:;<=>?@ABCDEFGHIJKLMNOPQRSTUVWXYZ[ ]^_ abcdefghijklmnopqrstuvwxyz{|}~"

\* charCodeAt of a one-character ASCII string
CharCode(c) ==
    LET at == {i \in 1..Len(Ascii) : SubSeq(Ascii, i, i) = c}
    IN  31 + CHOOSE i \in at : \A j \in at : i <= j

\* The code units of an ASCII string literal
U(str) == [i \in 1..Len(str) |-> CharCode(SubSeq(str, i, i))]

NL == <<10>>

\* ECMAScript WhiteSpace and LineTerminator code units: what trim() strips and
\* what \s matches
WhiteSpaceUnits ==
    {9, 10, 11, 12, 13, 32, 160, 5760, 8232, 8233, 8239, 8287, 12288, 65279}
        \cup (8192..8202)

IsBlank(s) == \A i \in 1..Len(s) : s[i] \in WhiteSpaceUnits

\* s.trim()
Trim(s) ==
    IF IsBlank(s) THEN <<>>
    ELSE LET keep == {i \in 1..Len(s) : s[i] \notin WhiteSpaceUnits}
             first == CHOOSE i \in keep : \A j \in keep : i <= j
             last == CHOOSE i \in keep : \A j \in keep : i >= j
         IN  SubSeq(s, first, last)

\* s.includes(sub)
Includes(s, sub) ==
    \E i \in 1..(Len(s) - Len(sub) + 1) : SubSeq(s, i, i + Len(sub) - 1) = sub

\* Where a match of /\n\s*\n/ that starts at i ends (0: no match at i): the
\* greedy \s* runs over the whole whitespace run after i and backtracks to the
\* last newline of it.
ParagraphBreakEnd(s, i) ==
    IF s[i] # NL[1] THEN 0
    ELSE LET run == {j \in (i + 1)..Len(s) : \A k \in (i + 1)..j : s[k] \in WhiteSpaceUnits}
             ends == {j \in run : s[j] = NL[1]}
         IN  IF ends = {} THEN 0 ELSE CHOOSE j \in ends : \A k \in ends : j >= k

\* s.split(/\n\s*\n/)
RECURSIVE Split(_)
Split(s) ==
    LET starts == {i \in 1..Len(s) : ParagraphBreakEnd(s, i) > 0}
    IN  IF starts = {} THEN <<s>>
        ELSE LET i == CHOOSE a \in starts : \A b \in starts : a <= b
             IN  <<SubSeq(s, 1, i - 1)>>
                   \o Split(SubSeq(s, ParagraphBreakEnd(s, i) + 1, Len(s)))

IsNotBlank(p) == Trim(p) # <<>>

\* text.split(/\n\s*\n/).filter(p => p.trim())
Paragraphs(text) == SelectSeq(Split(text), IsNotBlank)

-----------------------------------------------------------------------------
(* The inputs of a call and what the collaborators can answer *)

\* The receiver of the call. The page calls the imported binding plainly
\* (part_000 line 76) and the module is strict code, so there `this` is
\* undefined. "helpers" stands for a receiver on which processTextWithFonts and
\* processImages resolve, the only one with which lines 179-200 run.
ThisValues == {"undefined", "helpers"}

\* docxFileBase64 values: empty, padding only, one digit (no whole byte), and
\* two strings that decode to bytes.
Base64Alphabet == U("ABCDEFGHIJKLMNOPQRSTUVWXYZabcdefghijklmnopqrstuvwxyz0123456789+/-_")

Base64Inputs == {<<>>, U("="), U("Q"), U("UEs="), U("UEsDBA==")}

\* The base64 digits (the URL-safe ones included) and the padding character
Base64Digits == {u \in 32..126 : \E i \in 1..Len(Base64Alphabet) : Base64Alphabet[i] = u}
Base64Pad == CharCode("=")

IsBase64Digit(u) == u \in Base64Digits

\* Buffer.from(s, 'base64').length: the digits before the first '=' carry 6
\* bits each, whole bytes are kept.
Base64DecodedLength(s) ==
    LET pads == {i \in 1..Len(s) : s[i] = Base64Pad}
        stop == IF pads = {} THEN Len(s) + 1
                ELSE CHOOSE i \in pads : \A j \in pads : i <= j
        digits == Cardinality({i \in 1..(stop - 1) : IsBase64Digit(s[i])})
    IN  (digits * 6) \div 8

TextJpeg == U("image/jpeg")
TextPng == U("image/png")
TextBmp == U("image/bmp")

\* An embedded image: its content type and whether pdfDoc.image can decode it.
ImageKinds ==
    {[contentType |-> TextJpeg, buffer |-> "valid"],
     [contentType |-> TextPng, buffer |-> "valid"],
     [contentType |-> TextPng, buffer |-> "corrupt"],
     [contentType |-> TextBmp, buffer |-> "valid"]}

ImageLists == UNION {[1..n -> ImageKinds] : n \in 0..MaxImages}

\* Raw texts of documents: none, blank ones, one and two ASCII paragraphs, a
\* CJK paragraph, a paragraph between blank lines.
DocTexts ==
    {<<>>, U(" "), NL \o U(" ") \o NL,
     U("Hi"), U("Hi") \o NL \o NL \o U("Yo"),
     <<20013, 25991>>,
     U(" A ") \o NL \o U("  ") \o NL \o NL}

\* What the decoded bytes are: a word-processing document with its text and
\* images, something that is no Office file, or a damaged archive.
Docs ==
    {[kind |-> "docx", text |-> t, images |-> im] : t \in DocTexts, im \in ImageLists}
      \cup {[kind |-> k, text |-> <<>>, images |-> <<>>] : k \in {"notOffice", "damaged"}}

NoDoc == [kind |-> "none", text |-> <<>>, images |-> <<>>]

IsAscii(s) == \A i \in 1..Len(s) : s[i] < 128

\* Messages of the errors the libraries throw
MsgUnrecognised == U("Unrecognised Office Open XML file")
MsgDamaged == U("End of data reached")
MsgThisUndefined == U("Cannot read properties of undefined (reading 'processTextWithFonts')")
MsgRender == U("Invalid font data")
MsgImage == U("Unknown image format.")
MsgStream == U("write after end")

NoException == [none |-> TRUE]
NoResult == [none |-> TRUE]
NoPdfDoc == [created |-> FALSE]

-----------------------------------------------------------------------------
(* The results convertWordToPdfAction builds *)

ErrNoData == [error |-> U("No DOCX file data provided for conversion.")]
ErrEmptyBuffer == [error |-> U("Empty DOCX file data received after base64 decoding.")]
ErrNoText == [error |-> U("No text content found in the document.")]

\* The catch clause, lines 202-209
TextUnrecognised == U("Unrecognised Office Open XML")
TextInvalidDocx == U("The uploaded file does not appear to be a valid .docx file or is corrupted.")
TextFailedToConvert == U("Failed to convert Word document. ")
TextUndefined == U("undefined")
TextFailedToFinalize == U("Failed to finalize PDF document. ")
TextUnsupportedOpen == U("[Unsupported image type: ")
TextEmbedErrorOpen == U("[Error embedding image: ")
TextClose == U("]")

\* The catch clause returning an object without the message
CatchResultEmpty(e) == [k \in {} |-> e]

CatchResult(e) ==
    IF "message" \in DOMAIN e /\ Includes(e.message, TextUnrecognised)
    THEN [error |-> TextInvalidDocx]
    ELSE [error |-> TextFailedToConvert
                      \o (IF "message" \in DOMAIN e THEN e.message ELSE TextUndefined)]

\* The 'error' listener, line 196: the value the promise is rejected with
FinalizeRejection(err) == [error |-> TextFailedToFinalize \o err]

\* The 'end' listener, lines 188-191
FinalizeResult(chunks) ==
    [pdfDataUri |-> [prefix |-> "data:application/pdf;base64,", bytes |-> chunks]]

\* What the PDF document emits on 'data' when it ends: a header, the pages, a trailer
DocumentChunks(doc) ==
    <<[chunk |-> "header"]>>
      \o [i \in 1..Len(doc.pages) |-> [chunk |-> "page", content |-> doc.pages[i]]]
      \o <<[chunk |-> "trailer"]>>

\* pdfDoc.addPage()
AddPage(doc) == [doc EXCEPT !.pages = Append(@, <<>>)]

\* Something drawn on the current (last) page
Draw(doc, item) == [doc EXCEPT !.pages[Len(doc.pages)] = Append(@, item)]

\* pdfDoc.font(fontBuffer) or pdfDoc.font('Helvetica')
FontFor(fontBuffer) == IF fontBuffer # Null THEN fontBuffer ELSE [builtin |-> "Helvetica"]

Helvetica == [builtin |-> "Helvetica"]

TextItem(text, font, size) == [kind |-> "text", text |-> text, font |-> font, size |-> size]
ImageItem(img) == [kind |-> "image", contentType |-> img.contentType]

UnsupportedText(contentType) == TextUnsupportedOpen \o contentType \o TextClose
EmbedErrorText(message) == TextEmbedErrorOpen \o message \o TextClose

ParagraphFontSize == 12
PlaceholderFontSize == 10

-----------------------------------------------------------------------------
(* The tests convertWordToPdfAction and processImages branch on *)

\* line 130: !input.docxFileBase64
MissingInput(docxFileBase64) == docxFileBase64 = <<>>

\* The buffer test with < in place of ===
EmptyBufferNegative(length) == length < 0

\* line 139: docxFileBuffer.length === 0
EmptyBuffer(length) == length = 0

\* The text test without trim()
NoTextContentUntrimmed(text) == text = <<>>

\* line 151: !textContent.trim()
NoTextContent(text) == Trim(text) = <<>>

\* line 259
IsSupportedImage(contentType) == contentType = TextJpeg \/ contentType = TextPng

\* One pass of the loop body of processImages (lines 257-294) on doc, where
\* fault says what the renderer does with the placeholder line: "none", it draws
\* it; "placeholder", the line drawn inside the try block throws; "fatal", the
\* line drawn inside the catch block throws. The answer is the document and the
\* exception that leaves the loop, if any (and what of the renderer failed).
ImageStep(doc, img, fm, fault) ==
    LET paged == AddPage(doc)
        placeholder(errorText) ==
            Draw([paged EXCEPT !.font = FontFor(getBestFontForText(fm, errorText))],
                 TextItem(errorText, FontFor(getBestFontForText(fm, errorText)),
                          PlaceholderFontSize))
        caught(message) ==
            IF fault = "fatal"
            THEN [doc |-> paged, thrown |-> [message |-> MsgRender],
                  failures |-> <<"placeholderFatal">>]
            ELSE [doc |-> placeholder(EmbedErrorText(message)), thrown |-> NoException,
                  failures |-> IF message = MsgRender THEN <<"placeholder">> ELSE <<>>]
    IN  IF IsSupportedImage(img.contentType)
        THEN IF img.buffer = "valid"
             THEN [doc |-> Draw(paged, ImageItem(img)), thrown |-> NoException,
                   failures |-> <<>>]
             ELSE caught(MsgImage)
        ELSE IF fault = "none"
             THEN [doc |-> placeholder(UnsupportedText(img.contentType)),
                   thrown |-> NoException, failures |-> <<>>]
             ELSE caught(MsgRender)

\* One pass of the loop body of processTextWithFonts (lines 217-251): fault
\* "none", the paragraph is drawn in the selected font; "font", font() or
\* text() throws inside the try block and the catch block draws it in
\* Helvetica; "fatal", the catch block throws too.
ParagraphStep(doc, paragraph, fm, fault) ==
    LET font == FontFor(getBestFontForText(fm, paragraph))
    IN  IF fault = "none"
        THEN [doc |-> Draw([doc EXCEPT !.font = font],
                           TextItem(Trim(paragraph), font, ParagraphFontSize)),
              thrown |-> NoException, failures |-> <<>>]
        ELSE IF fault = "font"
        THEN [doc |-> Draw([doc EXCEPT !.font = Helvetica],
                           TextItem(Trim(paragraph), Helvetica, ParagraphFontSize)),
              thrown |-> NoException, failures |-> <<"paragraphFont">>]
        ELSE [doc |-> [doc EXCEPT !.font = Helvetica], thrown |-> [message |-> MsgRender],
              failures |-> <<"paragraphFatal">>]

Faults == {"none", "font", "fatal"}
ImageFaults == {"none", "placeholder", "fatal"}

-----------------------------------------------------------------------------
(* convertWordToPdfAction, one action per statement group *)

InitCommon ==
    /\ fontFiles \in [FontFileNames -> FileStates]
    /\ fontManager = NoFontManager
    /\ qText = <<>>
    /\ qReturn = NoReturn
    /\ thisArg = "undefined"
    /\ input = <<>>
    /\ docx = NoDoc
    /\ docxFileBuffer = 0
    /\ textContent = <<>>
    /\ images = <<>>
    /\ pdfDoc = NoPdfDoc
    /\ pdfChunks = <<>>
    /\ loopIdx = 0
    /\ thrown = NoException
    /\ outcome = "none"
    /\ result = NoResult
    /\ log = <<>>
    /\ failures = <<>>
    /\ file = Null
    /\ isConverting = FALSE
    /\ convertedPdfUri = Null
    /\ error = Null
    /\ handler = "none"
    /\ closureFile = Null
    /\ convertedFrom = Null
    /\ downloaded = Null

Init == InitCommon /\ pc = "idle"

\* return r (the async function's promise resolves with r)
Return(r) ==
    /\ outcome' = "resolved"
    /\ result' = r
    /\ pc' = "done"

\* an exception inside the try block: control goes to the catch clause
Throw(message) ==
    /\ thrown' = [message |-> message]
    /\ pc' = "catch"

\* The page or any other caller invokes the action.
Call ==
    /\ pc = "idle"
    /\ \E b \in Base64Inputs, t \in ThisValues :
         \E d \in (IF Base64DecodedLength(b) = 0 THEN {NoDoc} ELSE Docs) :
            /\ input' = b
            /\ thisArg' = t
            /\ docx' = d
    /\ pc' = "L130"
    /\ outcome' = "pending"
    /\ UNCHANGED <<fontVars, docxFileBuffer, textContent, images, pdfDoc, pdfChunks,
                   loopIdx, thrown, result, log, failures>>
    /\ UNCHANGED pageVars

\* lines 130-134
CheckInput ==
    /\ pc = "L130"
    /\ IF MissingInput(input)
       THEN Return(ErrNoData)
       ELSE pc' = "L137" /\ UNCHANGED <<outcome, result>>
    /\ UNCHANGED <<fontVars, thisArg, input, docx, docxFileBuffer, textContent, images,
                   pdfDoc, pdfChunks, loopIdx, thrown, log, failures>>
    /\ UNCHANGED pageVars

\* lines 137-141
DecodeBase64 ==
    /\ pc = "L137"
    /\ docxFileBuffer' = Base64DecodedLength(input)
    /\ IF EmptyBuffer(docxFileBuffer')
       THEN Return(ErrEmptyBuffer)
       ELSE pc' = "L144" /\ UNCHANGED <<outcome, result>>
    /\ UNCHANGED <<fontVars, thisArg, input, docx, textContent, images, pdfDoc,
                   pdfChunks, loopIdx, thrown, log, failures>>
    /\ UNCHANGED pageVars

\* lines 144-145
NewFontManager ==
    /\ pc = "L144"
    /\ fontManager' = loadAvailableFonts(fontFiles)
    /\ log' = Append(log, "FontManager")
    /\ pc' = "L148"
    /\ UNCHANGED <<fontFiles, qText, qReturn, thisArg, input, docx, docxFileBuffer,
                   textContent, images, pdfDoc, pdfChunks, loopIdx, thrown, outcome,
                   result, failures>>
    /\ UNCHANGED pageVars

\* lines 148-153: mammoth.extractRawText, then the text check
ExtractRawText ==
    /\ pc = "L148"
    /\ log' = Append(log, "extractRawText")
    /\ IF docx.kind = "docx"
       THEN /\ textContent' = docx.text
            /\ IF NoTextContent(textContent')
               THEN Return(ErrNoText)
               ELSE pc' = "L156" /\ UNCHANGED <<outcome, result>>
            /\ UNCHANGED <<thrown, failures>>
       ELSE /\ Throw(IF docx.kind = "notOffice" THEN MsgUnrecognised ELSE MsgDamaged)
            /\ UNCHANGED <<textContent, outcome, result>>
            /\ failures' = Append(failures, "extractRawText")
    /\ UNCHANGED <<fontVars, thisArg, input, docx, docxFileBuffer, images, pdfDoc,
                   pdfChunks, loopIdx>>
    /\ UNCHANGED pageVars

\* lines 156-164: mammoth.convertToHtml runs the convertImage callback on every image
ConvertToHtml ==
    /\ pc = "L156"
    /\ log' = Append(log, "convertToHtml")
    /\ images' = docx.images
    /\ pc' = "L167"
    /\ UNCHANGED <<fontVars, thisArg, input, docx, docxFileBuffer, textContent, pdfDoc,
                   pdfChunks, loopIdx, thrown, outcome, result, failures>>
    /\ UNCHANGED pageVars

\* lines 156-164 when the conversion or an image.read() fails
ConvertToHtmlThrows ==
    /\ pc = "L156"
    /\ log' = Append(log, "convertToHtml")
    /\ Throw(MsgDamaged)
    /\ failures' = Append(failures, "convertToHtml")
    /\ UNCHANGED <<fontVars, thisArg, input, docx, docxFileBuffer, textContent, images,
                   pdfDoc, pdfChunks, loopIdx, outcome, result>>
    /\ UNCHANGED pageVars

\* lines 167-176: new PDFDocument({autoFirstPage: false, ...}), the 'data'
\* listener, addPage()
CreatePdf ==
    /\ pc = "L167"
    /\ pdfDoc' = AddPage([pages |-> <<>>, font |-> Helvetica])
    /\ log' = Append(log, "PDFDocument")
    /\ pc' = "L179"
    /\ UNCHANGED <<fontVars, thisArg, input, docx, docxFileBuffer, textContent, images,
                   pdfChunks, loopIdx, thrown, outcome, result, failures>>
    /\ UNCHANGED pageVars

\* line 179 with this undefined: reading this.processTextWithFonts throws a TypeError
ReadHelperOfUndefined ==
    /\ pc = "L179"
    /\ thisArg = "undefined"
    /\ Throw(MsgThisUndefined)
    /\ UNCHANGED <<fontVars, thisArg, input, docx, docxFileBuffer, textContent, images,
                   pdfDoc, pdfChunks, loopIdx, outcome, result, log, failures>>
    /\ UNCHANGED pageVars

\* line 179 with a receiver that has the helper: processTextWithFonts starts
EnterProcessText ==
    /\ pc = "L179"
    /\ thisArg = "helpers"
    /\ loopIdx' = 1
    /\ pc' = "text"
    /\ UNCHANGED <<fontVars, thisArg, input, docx, docxFileBuffer, textContent, images,
                   pdfDoc, pdfChunks, thrown, outcome, result, log, failures>>
    /\ UNCHANGED pageVars

\* lines 216-252: one paragraph
RenderParagraph ==
    /\ pc = "text"
    /\ loopIdx <= Len(Paragraphs(textContent))
    /\ \E fault \in Faults :
         LET step == ParagraphStep(pdfDoc, Paragraphs(textContent)[loopIdx],
                                   fontManager, fault)
         IN  /\ pdfDoc' = step.doc
             /\ failures' = failures \o step.failures
             /\ IF step.thrown = NoException
                THEN pc' = "text" /\ loopIdx' = loopIdx + 1 /\ UNCHANGED thrown
                ELSE pc' = "catch" /\ thrown' = step.thrown /\ UNCHANGED loopIdx
    /\ UNCHANGED <<fontVars, thisArg, input, docx, docxFileBuffer, textContent, images,
                   pdfChunks, outcome, result, log>>
    /\ UNCHANGED pageVars

\* lines 216, 253: the paragraphs are done
LeaveProcessText ==
    /\ pc = "text"
    /\ loopIdx > Len(Paragraphs(textContent))
    /\ pc' = "L182"
    /\ UNCHANGED <<fontVars, thisArg, input, docx, docxFileBuffer, textContent, images,
                   pdfDoc, pdfChunks, loopIdx, thrown, outcome, result, log, failures>>
    /\ UNCHANGED pageVars

\* lines 182-184
CheckImages ==
    /\ pc = "L182"
    /\ IF Len(images) > 0
       THEN pc' = "images" /\ loopIdx' = 1
       ELSE pc' = "L186" /\ UNCHANGED loopIdx
    /\ UNCHANGED <<fontVars, thisArg, input, docx, docxFileBuffer, textContent, images,
                   pdfDoc, pdfChunks, thrown, outcome, result, log, failures>>
    /\ UNCHANGED pageVars

\* lines 256-295: one image
ProcessImage ==
    /\ pc = "images"
    /\ loopIdx <= Len(images)
    /\ \E fault \in ImageFaults :
         LET step == ImageStep(pdfDoc, images[loopIdx], fontManager, fault)
         IN  /\ pdfDoc' = step.doc
             /\ failures' = failures \o step.failures
             /\ IF step.thrown = NoException
                THEN pc' = "images" /\ loopIdx' = loopIdx + 1 /\ UNCHANGED thrown
                ELSE pc' = "catch" /\ thrown' = step.thrown /\ UNCHANGED loopIdx
    /\ UNCHANGED <<fontVars, thisArg, input, docx, docxFileBuffer, textContent, images,
                   pdfChunks, outcome, result, log>>
    /\ UNCHANGED pageVars

\* lines 256, 296: the images are done
LeaveProcessImages ==
    /\ pc = "images"
    /\ loopIdx > Len(images)
    /\ pc' = "L186"
    /\ UNCHANGED <<fontVars, thisArg, input, docx, docxFileBuffer, textContent, images,
                   pdfDoc, pdfChunks, loopIdx, thrown, outcome, result, log, failures>>
    /\ UNCHANGED pageVars

\* lines 186-192, 199: pdfDoc.end() emits the data and then 'end'; the promise
\* the function returned resolves with the data URI
FinalizeEnd ==
    /\ pc = "L186"
    /\ pdfChunks' = pdfChunks \o DocumentChunks(pdfDoc)
    /\ Return(FinalizeResult(pdfChunks'))
    /\ UNCHANGED <<fontVars, thisArg, input, docx, docxFileBuffer, textContent, images,
                   pdfDoc, loopIdx, thrown, log, failures>>
    /\ UNCHANGED pageVars

\* lines 186, 194-199: the document emits 'error'; the listener rejects the
\* promise, which the function has already returned without awaiting it, so the
\* catch clause of line 202 is not in its way
FinalizeError ==
    /\ pc = "L186"
    /\ outcome' = "rejected"
    /\ thrown' = FinalizeRejection(MsgStream)
    /\ pc' = "done"
    /\ failures' = Append(failures, "finalize")
    /\ UNCHANGED <<fontVars, thisArg, input, docx, docxFileBuffer, textContent, images,
                   pdfDoc, pdfChunks, loopIdx, result, log>>
    /\ UNCHANGED pageVars

\* lines 202-209
Catch ==
    /\ pc = "catch"
    /\ Return(CatchResult(thrown))
    /\ UNCHANGED <<fontVars, thisArg, input, docx, docxFileBuffer, textContent, images,
                   pdfDoc, pdfChunks, loopIdx, thrown, log, failures>>
    /\ UNCHANGED pageVars

Next ==
    \/ Call
    \/ CheckInput
    \/ DecodeBase64
    \/ NewFontManager
    \/ ExtractRawText
    \/ ConvertToHtml
    \/ ConvertToHtmlThrows
    \/ CreatePdf
    \/ ReadHelperOfUndefined
    \/ EnterProcessText
    \/ RenderParagraph
    \/ LeaveProcessText
    \/ CheckImages
    \/ ProcessImage
    \/ LeaveProcessImages
    \/ FinalizeEnd
    \/ FinalizeError
    \/ Catch

Spec == Init /\ [][Next]_vars

-----------------------------------------------------------------------------
(* The upload page, WordToPdfPage (src/unnamed/part_000) *)

TypeDocx == U("application/vnd.openxmlformats-officedocument.wordprocessingml.document")
TypePlain == U("text/plain")

NameA == U("a.docx")
NameB == U("b.docx")
NameC == U("c.docx")
NameD == U("notes.txt")

TextDotDocx == U(".docx")
TextDotPdf == U(".pdf")
TextHi == U("Hi")
TextHiYo == U("Hi") \o NL \o NL \o U("Yo")
Base64A == U("UEsDBA==")
Base64B == U("UEs=")

\* The files the user can pick: a document with a paragraph and an image, a
\* document of two paragraphs, a file of zero bytes named like a document, and
\* a text file. base64 is what Buffer.from(arrayBuffer).toString('base64')
\* gives for the bytes, docx is what the bytes encode.
PageFiles ==
    {[name |-> NameA, type |-> TypeDocx, base64 |-> Base64A,
      docx |-> [kind |-> "docx", text |-> TextHi,
                images |-> <<[contentType |-> TextJpeg, buffer |-> "valid"]>>]],
     [name |-> NameB, type |-> TypeDocx, base64 |-> Base64B,
      docx |-> [kind |-> "docx", text |-> TextHiYo, images |-> <<>>]],
     [name |-> NameC, type |-> TypeDocx, base64 |-> <<>>, docx |-> NoDoc],
     [name |-> NameD, type |-> TypePlain, base64 |-> Base64B,
      docx |-> [kind |-> "notOffice", text |-> <<>>, images |-> <<>>]]}

\* The selectedFiles argument of handleFileSelected: no file or one file
SelectedFileLists == {<<>>} \cup {<<f>> : f \in PageFiles}

MsgRead == U("The file could not be read.")
MsgUnexpected == U("An unexpected error occurred during conversion.")

\* name.replace(/\.docx$/, '')
StripDocx(name) ==
    IF /\ Len(name) >= Len(TextDotDocx)
       /\ SubSeq(name, Len(name) - Len(TextDotDocx) + 1, Len(name)) = TextDotDocx
    THEN SubSeq(name, 1, Len(name) - Len(TextDotDocx))
    ELSE name

\* The file name handed to downloadDataUri: the template literal of lines 83
\* and 248; file?.name is undefined when no file is selected
DownloadName(f) ==
    (IF f = Null THEN TextUndefined ELSE StripDocx(f.name)) \o TextDotPdf

\* e.message || "An unexpected error occurred during conversion."
ErrorMessage(e) ==
    IF "message" \in DOMAIN e /\ Len(e.message) > 0 THEN e.message ELSE MsgUnexpected

\* if (result.error) and else if (result.pdfDataUri)
HasError(r) == "error" \in DOMAIN r /\ Len(r.error) > 0
HasPdfDataUri(r) == "pdfDataUri" \in DOMAIN r

InitPage == InitCommon /\ pc = "idle"

\* handleFileSelected, lines 24-46; the file input and the upload zone call it
\* whether or not a conversion is running
HandleFileSelected ==
    /\ \E selectedFiles \in SelectedFileLists :
         IF Len(selectedFiles) > 0 /\ selectedFiles[1].type = TypeDocx
         THEN file' = selectedFiles[1]
         ELSE file' = Null
    /\ convertedPdfUri' = Null
    /\ error' = Null
    /\ convertedFrom' = Null
    /\ UNCHANGED <<fontVars, callVars, isConverting, handler, closureFile, downloaded>>

\* handleConvert up to its first await, lines 57-73; the button is disabled
\* when no file is selected or a conversion is running (line 213)
ClickConvert ==
    /\ file # Null
    /\ ~isConverting
    /\ handler' = "reading"
    /\ closureFile' = file
    /\ isConverting' = TRUE
    /\ convertedPdfUri' = Null
    /\ error' = Null
    /\ convertedFrom' = Null
    /\ UNCHANGED <<fontVars, callVars, file, downloaded>>

\* lines 73-76: the bytes have been read, the action is called
CallAction ==
    /\ handler = "reading"
    /\ pc = "idle"
    /\ input' = closureFile.base64
    /\ docx' = closureFile.docx
    /\ \E t \in ThisValues : thisArg' = t
    /\ pc' = "L130"
    /\ outcome' = "pending"
    /\ handler' = "awaiting"
    /\ UNCHANGED <<fontVars, docxFileBuffer, textContent, images, pdfDoc, pdfChunks,
                   loopIdx, thrown, result, log, failures>>
    /\ UNCHANGED <<file, isConverting, convertedPdfUri, error, closureFile,
                   convertedFrom, downloaded>>

\* The call is over: the variables of convertWordToPdfAction are gone
ActionOver ==
    /\ pc' = "idle"
    /\ thisArg' = "undefined"
    /\ input' = <<>>
    /\ docx' = NoDoc
    /\ docxFileBuffer' = 0
    /\ textContent' = <<>>
    /\ images' = <<>>
    /\ pdfDoc' = NoPdfDoc
    /\ pdfChunks' = <<>>
    /\ loopIdx' = 0
    /\ thrown' = NoException
    /\ outcome' = "none"
    /\ result' = NoResult
    /\ log' = <<>>
    /\ failures' = <<>>
    /\ fontManager' = NoFontManager
    /\ UNCHANGED <<fontFiles, qText, qReturn>>

\* line 73 when readFileAsArrayBuffer rejects, then lines 90-96
ReadRejected ==
    /\ handler = "reading"
    /\ error' = [text |-> ErrorMessage([message |-> MsgRead])]
    /\ isConverting' = FALSE
    /\ handler' = "none"
    /\ closureFile' = Null
    /\ UNCHANGED <<fontVars, callVars, file, convertedPdfUri, convertedFrom, downloaded>>

\* lines 76-96 once the promise of the action has settled: the error or the
\* PDF of the result, or the catch clause for a rejection, then finally
Settled ==
    /\ handler = "awaiting"
    /\ pc = "done"
    /\ IF outcome = "resolved"
       THEN IF HasError(result)
            THEN /\ error' = [text |-> result.error]
                 /\ UNCHANGED <<convertedPdfUri, convertedFrom, downloaded>>
            ELSE IF HasPdfDataUri(result)
                 THEN /\ convertedPdfUri' = result.pdfDataUri
                      /\ convertedFrom' = closureFile
                      /\ downloaded' = [uri |-> result.pdfDataUri,
                                        name |-> DownloadName(closureFile)]
                      /\ UNCHANGED error
                 ELSE UNCHANGED <<error, convertedPdfUri, convertedFrom, downloaded>>
       ELSE /\ error' = [text |-> ErrorMessage(thrown)]
            /\ UNCHANGED <<convertedPdfUri, convertedFrom, downloaded>>
    /\ isConverting' = FALSE
    /\ handler' = "none"
    /\ closureFile' = Null
    /\ ActionOver
    /\ UNCHANGED file

\* lines 242-253: the PDF Ready alert is rendered, Download Again is clicked
DownloadAgain ==
    /\ convertedPdfUri # Null
    /\ error = Null
    /\ downloaded' = [uri |-> convertedPdfUri, name |-> DownloadName(file)]
    /\ UNCHANGED <<fontVars, callVars, file, isConverting, convertedPdfUri, error,
                   handler, closureFile, convertedFrom>>

NextPage ==
    \/ HandleFileSelected
    \/ ClickConvert
    \/ CallAction
    \/ ReadRejected
    \/ Settled
    \/ DownloadAgain
    \/ CheckInput
    \/ DecodeBase64
    \/ NewFontManager
    \/ ExtractRawText
    \/ ConvertToHtml
    \/ ConvertToHtmlThrows
    \/ CreatePdf
    \/ ReadHelperOfUndefined
    \/ EnterProcessText
    \/ RenderParagraph
    \/ LeaveProcessText
    \/ CheckImages
    \/ ProcessImage
    \/ LeaveProcessImages
    \/ FinalizeEnd
    \/ FinalizeError
    \/ Catch

SpecPage == InitPage /\ [][NextPage]_vars

-----------------------------------------------------------------------------
(* The FontManager by itself *)

TextUnits == {20013, 65, 1575, 55360, 56320}   \* U+4E2D, A, U+0627, 0xD840, 0xDC00

FullStop == CharCode(".")

Repeat(u, n) == [i \in 1..n |-> u]

\* White space of three kinds: SPACE, which DejaVuSans declares, IDEOGRAPHIC
\* SPACE (U+3000), which NotoSansSC declares, and OGHAM SPACE MARK (U+1680),
\* which neither declares
BlankUnits == {32, 12288, 5760}

\* Every text of up to MaxTextLen code units over TextUnits, every text of
\* a run of ideographs, a run of full stops and a run of Arabic letters of up
\* to MaxRunLen code units together, and every white-space-only text of up to
\* MaxTextLen code units over BlankUnits.
Texts ==
    UNION {[1..n -> TextUnits] : n \in 0..MaxTextLen}
      \cup {Repeat(20013, a) \o Repeat(FullStop, b) \o Repeat(1575, c) :
              a \in 0..MaxRunLen, b \in 0..MaxRunLen, c \in 0..MaxRunLen}
      \cup UNION {[1..n -> BlankUnits] : n \in 0..MaxTextLen}

InitFont == InitCommon /\ pc = "unit"

\* new FontManager()
ConstructFontManager ==
    /\ pc = "unit"
    /\ fontManager = NoFontManager
    /\ fontManager' = loadAvailableFonts(fontFiles)
    /\ UNCHANGED <<fontFiles, qText, qReturn, callVars>>
    /\ UNCHANGED pageVars

\* fontManager.getBestFontForText(text), one call for each run
SelectFont ==
    /\ pc = "unit"
    /\ fontManager # NoFontManager
    /\ qReturn = NoReturn
    /\ \E text \in Texts :
         /\ qText' = text
         /\ qReturn' = BestFontReturn(fontManager, text)
    /\ UNCHANGED <<fontFiles, fontManager, callVars>>
    /\ UNCHANGED pageVars

NextFont == ConstructFontManager \/ SelectFont

SpecFont == InitFont /\ [][NextFont]_vars

-----------------------------------------------------------------------------
(* Properties of the FontManager, checked under SpecFont *)

Selected == pc = "unit" /\ qReturn # NoReturn

\* Code points of the queried text inside the declared ranges of the font
\* that is i-th in the priority list
Declares(name, codePoint) ==
    \E c \in 1..Len(FONT_CONFIG) :
        /\ FONT_CONFIG[c].name = name
        /\ \E r \in 1..Len(FONT_CONFIG[c].unicodeRanges) :
             codePoint \in FONT_CONFIG[c].unicodeRanges[r][1]..FONT_CONFIG[c].unicodeRanges[r][2]

CoveredBy(i) ==
    Cardinality({k \in 1..Len(CodePoints(qText)) :
                    Declares(fontManager.fontPriority[i], CodePoints(qText)[k])})

QueryLength == Len(CodePoints(qText))

\* The fonts of the priority list whose coverage of the queried text is above 0.8
Above80 ==
    {i \in 1..Len(fontManager.fontPriority) : CoveredBy(i) * 10 > 8 * QueryLength}

\* ... and those whose coverage is 0.8 or more
AtLeast80 ==
    {i \in 1..Len(fontManager.fontPriority) :
        QueryLength > 0 /\ CoveredBy(i) * 10 >= 8 * QueryLength}

BufferOf(name) == fontManager.loadedFonts[name]

NotoBuffer == ReadFile("NotoSansSC-VariableFont_wght.ttf")
DejaVuBuffer == ReadFile("DejaVuSans.ttf")

\* C1: for a non-empty text, getBestFontForText returns through the threshold
\* test exactly when some font of the priority list covers more than 0.8 of the
\* code points, and then it returns the first such font in priority order; a
\* font that covers exactly 0.8 is not returned by the threshold test.
C1_FirstFontAboveThreshold ==
    (Selected /\ qText # <<>>) =>
        /\ Above80 # {} =>
             /\ qReturn.site = "threshold"
             /\ \E i \in Above80 :
                  /\ \A j \in Above80 : i <= j
                  /\ qReturn.value = BufferOf(fontManager.fontPriority[i])
        /\ Above80 = {} => qReturn.site # "threshold"

\* Nine ideographs and a full stop, both fonts loaded: NotoSansSC is returned
\* by the threshold test.
C1_Witness ==
    /\ Selected
    /\ qText = Repeat(20013, 9) \o <<FullStop>>
    /\ fontManager.fontPriority = <<"NotoSansSC", "DejaVuSans">>
    /\ qReturn = [site |-> "threshold", value |-> NotoBuffer]

\* C2: when no loaded font covers 0.8 or more of the code points of the text,
\* getBestFontForText returns the first font of the priority list if a font is
\* loaded; when no font is loaded it returns null for every text.
C2_FallbackToFirstLoaded ==
    Selected =>
        /\ fontManager.fontPriority = <<>> => qReturn.value = Null
        /\ (fontManager.fontPriority # <<>> /\ AtLeast80 = {}) =>
             qReturn.value = BufferOf(fontManager.fontPriority[1])

\* Arabic letters, which neither font declares, with both fonts loaded: the
\* head of the priority list is returned by the fallback.
C2_Witness ==
    /\ Selected
    /\ qText = <<1575, 1575, 1575>>
    /\ fontManager.fontPriority = <<"NotoSansSC", "DejaVuSans">>
    /\ qReturn = [site |-> "fallback", value |-> NotoBuffer]

\* C3: a non-empty text whose code points all lie inside the declared ranges
\* of one loaded font makes getBestFontForText return that font, provided no
\* font earlier in the priority list covers 0.8 or more of the text.
C3_FullyCoveredTextGetsItsFont ==
    (Selected /\ qText # <<>>) =>
        \A i \in 1..Len(fontManager.fontPriority) :
            (/\ CoveredBy(i) = QueryLength
             /\ \A j \in AtLeast80 : j >= i)
              => qReturn.value = BufferOf(fontManager.fontPriority[i])

\* A text of Basic Latin letters with both fonts loaded returns DejaVuSans,
\* the second font of the priority list.
C3_Witness ==
    /\ Selected
    /\ qText = <<65, 65, 65>>
    /\ fontManager.fontPriority = <<"NotoSansSC", "DejaVuSans">>
    /\ qReturn.value = DejaVuBuffer

\* The names of the catalog, in declaration order, whose file can be read
RECURSIVE ReadableFrom(_)
ReadableFrom(i) ==
    IF i > Len(FONT_CONFIG) THEN <<>>
    ELSE (IF fontFiles[FONT_CONFIG[i].file] = "present" THEN <<FONT_CONFIG[i].name>> ELSE <<>>)
           \o ReadableFrom(i + 1)

\* C10: whatever files are present, missing or unreadable, construction
\* succeeds with a loaded-font set inside the catalog and a priority list that
\* names exactly the loaded fonts in declaration order; what
\* getBestFontForText returns is the buffer of a loaded font or null.
C10_LoadedFontsFromCatalog ==
    (pc = "unit" /\ fontManager # NoFontManager) =>
        /\ DOMAIN fontManager.loadedFonts \subseteq FontNames
        /\ fontManager.fontPriority = ReadableFrom(1)
        /\ {fontManager.fontPriority[i] : i \in 1..Len(fontManager.fontPriority)}
             = DOMAIN fontManager.loadedFonts
        /\ \A n \in DOMAIN fontManager.loadedFonts :
             \E i \in 1..Len(FONT_CONFIG) :
                FONT_CONFIG[i].name = n /\ fontManager.loadedFonts[n] = ReadFile(FONT_CONFIG[i].file)
        /\ qReturn # NoReturn =>
             qReturn.value \in {Null} \cup {BufferOf(n) : n \in DOMAIN fontManager.loadedFonts}

\* The first file of the catalog cannot be read, the second can: DejaVuSans is
\* the only loaded font, and it is what a Latin text gets.
C10_Witness ==
    /\ Selected
    /\ fontFiles["NotoSansSC-VariableFont_wght.ttf"] = "unreadable"
    /\ fontFiles["DejaVuSans.ttf"] = "present"
    /\ fontManager.fontPriority = <<"DejaVuSans">>
    /\ qText = <<65>>
    /\ qReturn.value = DejaVuBuffer

\* The head of the priority list, or null when no font is loaded
HeadOrNull ==
    IF fontManager.fontPriority = <<>> THEN Null
    ELSE BufferOf(fontManager.fontPriority[1])

\* C11: for an empty or white-space-only text getBestFontForText returns null
\* or the first font of the priority list, whatever fonts are loaded, and no
\* quotient it compares with the threshold has a text of zero code points as
\* its divisor.
C11_BlankTextGetsHeadWithoutZeroDivision ==
    (Selected /\ IsBlank(qText)) =>
        /\ qReturn.value \in {Null, HeadOrNull}
        /\ \A t \in ThresholdTests(fontManager, qText) : t.length # 0

\* The two ways the function departs from C11, each by itself.
\* The empty text with a font loaded: 0 / 0 is compared with 0.8.
C11_EmptyTextDividesByZero ==
    /\ Selected
    /\ qText = <<>>
    /\ fontManager.fontPriority = <<"NotoSansSC", "DejaVuSans">>
    /\ ThresholdTests(fontManager, qText)
         = {[fontName |-> "NotoSansSC", supportedChars |-> 0, length |-> 0],
            [fontName |-> "DejaVuSans", supportedChars |-> 0, length |-> 0]}
    /\ qReturn = [site |-> "fallback", value |-> NotoBuffer]

\* A text of one SPACE with both fonts loaded: the threshold test returns
\* DejaVuSans, the second font of the priority list.
C11_SpaceGetsSecondFont ==
    /\ Selected
    /\ qText = <<32>>
    /\ fontManager.fontPriority = <<"NotoSansSC", "DejaVuSans">>
    /\ qReturn = [site |-> "threshold", value |-> DejaVuBuffer]

-----------------------------------------------------------------------------
(* Properties of the upload page, checked under SpecPage *)

C12_StalePdfShown ==
    /\ handler = "none"
    /\ file # Null /\ file.name = NameB
    /\ convertedPdfUri # Null
    /\ convertedFrom # Null /\ convertedFrom.name = NameA
    /\ error = Null

\* ... and Download Again has handed it out as b.pdf.
C12_StalePdfDownloadedUnderNewName ==
    /\ C12_StalePdfShown
    /\ downloaded = [uri |-> convertedPdfUri, name |-> U("b.pdf")]

\* The same interleaving ending in an error: b.docx, which has bytes, is
\* selected, and the error on display is the one of the zero-byte c.docx.
C12_StaleErrorShown ==
    /\ handler = "none"
    /\ ~isConverting
    /\ file # Null /\ file.name = NameB
    /\ error = [text |-> ErrNoData.error]

-----------------------------------------------------------------------------
(* Properties of convertWordToPdfAction, checked under Spec *)

Done == pc = "done"

\* A field of a result object that is there and not empty
Populated(r, field) == field \in DOMAIN r /\ r[field] # <<>>

HasPdf(r) == Populated(r, "pdfDataUri") /\ r.pdfDataUri.bytes # <<>>

\* The input is a document with text to render
HasText == docx.kind = "docx" /\ ~IsBlank(docx.text)

\* C4: a document of non-empty ASCII text without images, converted with no
\* collaborator failing, ends in a resolved result with a non-empty PDF and no
\* error.
C4_AsciiDocumentYieldsPdf ==
    (Done /\ HasText /\ IsAscii(docx.text) /\ docx.images = <<>> /\ failures = <<>>) =>
        /\ outcome = "resolved"
        /\ HasPdf(result)
        /\ ~Populated(result, "error")

Handed == IF outcome = "resolved" THEN result ELSE thrown

\* C6: a finished call hands over an object in which exactly one of
\* pdfDataUri and error is populated.
C6_ExactlyOneOfPdfAndError ==
    Done => (Populated(Handed, "pdfDataUri") /\ ~Populated(Handed, "error"))
              \/ (~Populated(Handed, "pdfDataUri") /\ Populated(Handed, "error"))

\* A call that ended in the catch clause after the extractor refused the
\* bytes: the result holds the error message and nothing else.
C6_Witness ==
    /\ Done
    /\ outcome = "resolved"
    /\ docx.kind = "notOffice"
    /\ thrown = [message |-> MsgUnrecognised]
    /\ result = [error |-> TextInvalidDocx]

TextUnsupportedBmp == U("[Unsupported image type: image/bmp]")

\* The page that processImages makes for the k-th image holds what the image
\* calls for: the image, the unsupported-type line, or an embedding-error line
ImagePageAsClaimed(k) ==
    LET img == docx.images[k]
        page == pdfDoc.pages[k + 1]
    IN  /\ Len(page) = 1
        /\ IF img.contentType \in {TextJpeg, TextPng}
           THEN IF img.buffer = "valid"
                THEN page[1].kind = "image" /\ page[1].contentType = img.contentType
                ELSE /\ page[1].kind = "text"
                     /\ SubSeq(page[1].text, 1, Len(TextEmbedErrorOpen)) = TextEmbedErrorOpen
           ELSE page[1].kind = "text" /\ page[1].text = TextUnsupportedBmp

ImagesContained ==
    /\ outcome = "resolved"
    /\ HasPdf(result)
    /\ pdfDoc # NoPdfDoc
    /\ Len(pdfDoc.pages) = 1 + Len(docx.images)
    /\ \A k \in 1..Len(docx.images) : ImagePageAsClaimed(k)

\* C7: a document with text and images, converted with no collaborator failing
\* other than on the images themselves, ends with a PDF in which every image
\* has its own page, in extraction order, holding the image, the line
\* "[Unsupported image type: image/bmp]" or an embedding-error line.
C7_ImageFailuresContained ==
    (Done /\ HasText /\ docx.images # <<>> /\ failures = <<>>) => ImagesContained

\* The same with a receiver on which the helpers resolve: there the loop of
\* processImages does contain the failures.
ImagesContainedWithHelpers ==
    (Done /\ HasText /\ docx.images # <<>> /\ failures = <<>> /\ thisArg = "helpers")
        => ImagesContained

TextNoText == U("No text content found in the document.")

\* C8: a document whose text is empty or blank ends with the result
\* {error: "No text content found in the document."} whatever images it
\* holds, and on that path the images are never extracted, no PDF document is
\* made and no page is added.
C8_BlankTextYieldsNoTextContent ==
    (Done /\ docx.kind = "docx" /\ IsBlank(docx.text)) =>
        /\ outcome = "resolved"
        /\ result = [error |-> TextNoText]
        /\ log = <<"FontManager", "extractRawText">>
        /\ images = <<>>
        /\ pdfDoc = NoPdfDoc
        /\ pdfChunks = <<>>

\* A blank text with two images that could be embedded.
C8_Witness ==
    /\ Done
    /\ docx.kind = "docx"
    /\ docx.text = <<32>>
    /\ Len(docx.images) = 2
    /\ \A k \in 1..2 : docx.images[k] = [contentType |-> TextPng, buffer |-> "valid"]
    /\ result = [error |-> TextNoText]

\* The inputs that hold no byte: the empty string, and strings without a whole
\* byte of base64 digits
ZeroByteInputs == {<<>>, <<61>>, <<81>>}        \* "", "=", "Q"

\* C9: with an input that holds no byte, the call ends with one of the two
\* empty-input errors and without a PDF, and at no point of it has the font
\* manager been constructed, the extractor been invoked or a PDF been started.
C9_EmptyInputRejectedFirst ==
    (pc \notin {"idle", "unit"} /\ input \in ZeroByteInputs) =>
        /\ fontManager = NoFontManager
        /\ log = <<>>
        /\ pdfDoc = NoPdfDoc
        /\ Done => /\ outcome = "resolved"
                   /\ result \in {ErrNoData, ErrEmptyBuffer}
                   /\ ~Populated(result, "pdfDataUri")

\* The input "Q" is not empty and decodes to an empty buffer.
C9_Witness ==
    /\ Done
    /\ input = <<81>>
    /\ docxFileBuffer = 0
    /\ result = ErrEmptyBuffer

====
